---- MODULE Spec2Model ----
(***************************************************************************)
(* evelink/rate_limit.py: RateLimit (a sliding-window limiter built on a   *)
(* bounded deque, a lock and a condition) and RateLimitManager (a request  *)
(* limiter and an error limiter used together).                            *)
(*                                                                         *)
(* Time is an integer clock.  Eps stands for the 1e-3 margin added to the  *)
(* sleep in reserve(); windows are whole numbers of the same unit.         *)
(***************************************************************************)
EXTENDS Integers, Sequences, FiniteSets, TLC

\* ---- bounds of the model ----
ReqLimit == 1
ReqWindow == 1
ErrLimit == 2
ErrWindow == 2
MaxTime == 4

\* the margin added to the computed sleep (line 39)
Eps == 1

Threads == {"t1", "t2", "t3"}

\* the threads that call the RateLimitManager
Callers == {"t1", "t2"}

\* request_limit and error_limit of the RateLimitManager
Limiters == {"request", "error"}

\* a pending slot of recents (Python None)
None == -1
NoThread == "nobody"
NoTime == -1

VARIABLES
    now,        \* time.time()
    recents,    \* recents[l]: the deque of limiter l, oldest first
    lock,       \* lock[l]: the thread holding l's lock, or NoThread
    pc,         \* pc[t]: where thread t is
    sess,       \* sess[t]: "none", "direct" (calls a limiter) or "mgr" (calls the manager)
    lim,        \* lim[t]: the limiter of t's current call
    argTs,      \* argTs[t]: ts_finished read by finished()
    argOk,      \* argOk[t]: the success argument of finished()
    resAt,      \* resAt[t]: the clock when t's current reservation was appended
    bar,        \* history: oldest timestamp + window seen by t's reserve() at its call, if the queue was full of unexpired completed records
    rets,       \* history: rets[l][x]: reserve() returns of limiter l at time x, kept for the trailing window
    lastOp,     \* history: the operation the last step completed
    lastRel     \* the clock at the last release of the single-threaded client

vars == <<now, recents, lock, pc, sess, lim, argTs, argOk, resAt, bar, rets, lastOp, lastRel>>

\* RateLimitManager.__init__ (lines 76-77), scaled
Limit(l) == IF l = "request" THEN ReqLimit ELSE ErrLimit
Window(l) == IF l = "request" THEN ReqWindow ELSE ErrWindow

Times == 0..MaxTime

Min(a, b) == IF a < b THEN a ELSE b

\* ---- the deque operations ----

\* deque(maxlen=limit).append: a full deque drops its front
DequeAppend(q, x, limit) ==
    IF Len(q) >= limit THEN Append(Tail(q), x) ELSE Append(q, x)

\* index of the leftmost pending slot, 0 when there is none
RECURSIVE FirstNoneFrom(_, _)
FirstNoneFrom(q, i) ==
    IF i > Len(q) THEN 0
    ELSE IF q[i] = None THEN i
    ELSE FirstNoneFrom(q, i + 1)

FirstNone(q) == FirstNoneFrom(q, 1)

HasNone(q) == FirstNone(q) # 0

RemoveAt(q, i) == SubSeq(q, 1, i - 1) \o SubSeq(q, i + 1, Len(q))

\* a removal that drops the front record instead of a pending one
RemoveFront(q) == Tail(q)

\* a removal that takes every pending record
RemoveAllPending(q) == SelectSeq(q, LAMBDA x : x # None)

\* deque.remove(None) when a None is present (line 53)
RemoveNone(q) == RemoveAt(q, FirstNone(q))

\* a release that inserts the completed record before the pending slot
\* instead of overwriting it
StampInserts(q, ts) ==
    IF HasNone(q)
    THEN SubSeq(q, 1, FirstNone(q) - 1) \o <<ts>> \o SubSeq(q, FirstNone(q), Len(q))
    ELSE q

\* index of the rightmost pending slot, 0 when there is none
RECURSIVE LastNoneFrom(_, _)
LastNoneFrom(q, i) ==
    IF i = 0 THEN 0
    ELSE IF q[i] = None THEN i
    ELSE LastNoneFrom(q, i - 1)

\* a release that stamps the newest pending slot instead of the oldest
StampRightmost(q, ts) ==
    IF HasNone(q) THEN [q EXCEPT ![LastNoneFrom(q, Len(q))] = ts] ELSE q

\* a loop without the break of line 58: every pending slot is stamped
StampAllPending(q, ts) ==
    [i \in 1..Len(q) |-> IF q[i] = None THEN ts ELSE q[i]]

\* lines 55-58: write ts into the leftmost pending slot, if any
StampLeftmost(q, ts) ==
    IF HasNone(q) THEN [q EXCEPT ![FirstNone(q)] = ts] ELSE q

\* an expiry test that is not strict: a record leaves at timestamp + window
RECURSIVE ForgetOldAtEdge(_, _, _)
ForgetOldAtEdge(q, t, w) ==
    IF q # <<>> /\ Head(q) # None /\ Head(q) <= t - w
    THEN ForgetOldAtEdge(Tail(q), t, w)
    ELSE q

\* an expiry test that is late by one unit
RECURSIVE ForgetOldLate(_, _, _)
ForgetOldLate(q, t, w) ==
    IF q # <<>> /\ Head(q) # None /\ Head(q) < t - w - 1
    THEN ForgetOldLate(Tail(q), t, w)
    ELSE q

\* an eviction that also pops a pending front
RECURSIVE ForgetOldPastPending(_, _, _)
ForgetOldPastPending(q, t, w) ==
    IF q # <<>> /\ (Head(q) = None \/ Head(q) < t - w)
    THEN ForgetOldPastPending(Tail(q), t, w)
    ELSE q

\* __forget_old (lines 66-70) run at clock t on a limiter of window w
RECURSIVE ForgetOld(_, _, _)
ForgetOld(q, t, w) ==
    IF q # <<>> /\ Head(q) # None /\ Head(q) < t - w
    THEN ForgetOld(Tail(q), t, w)
    ELSE q

\* ---- state ----

NoOp ==
    [op |-> "none", t |-> NoThread, l |-> "request", dnc |-> FALSE, ts |-> NoTime,
     pre |-> <<>>, undo |-> FALSE, base |-> <<>>, waiting |-> {}, bar |-> NoTime]

Init ==
    /\ now = 0
    /\ recents = [l \in Limiters |-> <<>>]
    /\ lock = [l \in Limiters |-> NoThread]
    /\ pc = [t \in Threads |-> "idle"]
    /\ sess = [t \in Threads |-> "none"]
    /\ \E l \in Limiters : lim = [t \in Threads |-> l]
    /\ argTs = [t \in Threads |-> NoTime]
    /\ argOk = [t \in Threads |-> FALSE]
    /\ resAt = [t \in Threads |-> NoTime]
    /\ bar = [t \in Threads |-> NoTime]
    /\ rets = [l \in Limiters |-> [x \in Times |-> 0]]
    /\ lastOp = NoOp
    /\ lastRel = [l \in Limiters |-> NoTime]

\* threads blocked in self.__cond.wait() of limiter l (line 33)
Waiters(l) == {w \in Threads : pc[w] = "waiting" /\ lim[w] = l}

\* history: what a reserve() call finds when it is called: the front timestamp
\* plus the window when the queue is full of completed, unexpired records
BarOf(l) ==
    LET q == recents[l] IN
    IF /\ Len(q) = Limit(l)
       /\ \A i \in 1..Len(q) : q[i] # None /\ q[i] >= now - Window(l)
    THEN q[1] + Window(l)
    ELSE NoTime

\* history: one more reserve() return of limiter l at the current clock
CountReturn(l) ==
    [rets EXCEPT ![l][now] = Min(@ + 1, Limit(l) + 1)]

\* ---- the clock ----

Tick ==
    /\ now < MaxTime
    /\ now' = now + 1
    /\ rets' = [l \in Limiters |->
                  [x \in Times |-> IF x < now + 1 - Window(l) THEN 0 ELSE rets[l][x]]]
    /\ lastOp' = NoOp
    /\ UNCHANGED <<recents, lock, pc, sess, lim, argTs, argOk, resAt, bar, lastRel>>

\* ---- RateLimit.reserve (lines 24-42) ----

\* a client calls reserve() on its limiter
ReserveCall(t) ==
    /\ pc[t] = "idle"
    /\ sess[t] = "none"
    /\ sess' = [sess EXCEPT ![t] = "direct"]
    /\ pc' = [pc EXCEPT ![t] = "r_lock"]
    /\ bar' = [bar EXCEPT ![t] = BarOf(lim[t])]
    /\ lastOp' = NoOp
    /\ UNCHANGED <<now, recents, lock, lim, argTs, argOk, resAt, rets, lastRel>>

\* lines 28-29: take the lock, forget the old records
RLock(t) ==
    LET l == lim[t] IN
    /\ pc[t] = "r_lock"
    /\ lock[l] = NoThread
    /\ lock' = [lock EXCEPT ![l] = t]
    /\ recents' = [recents EXCEPT ![l] = ForgetOld(@, now, Window(l))]
    /\ pc' = [pc EXCEPT ![t] = "r_loop"]
    /\ lastOp' = [NoOp EXCEPT !.op = "lock", !.t = t, !.l = l, !.pre = recents[l]]
    /\ UNCHANGED <<now, sess, lim, argTs, argOk, resAt, bar, rets, lastRel>>

\* a loop condition that lets one reservation too many through
FullOffByOne(l) == Len(recents[l]) = Limit(l) + 1

\* a loop condition that holds only above the limit
FullAboveLimit(l) == Len(recents[l]) > Limit(l)

\* line 30: the loop condition
Full(l) == Len(recents[l]) = Limit(l)

\* lines 30, 42: the queue is not full: append a pending slot, leave the lock, return.
\* In block_until_can_start_new_request (lines 84-85) the return of
\* request_limit.reserve() is the call of error_limit.reserve().
Reserved(t) ==
    LET l == lim[t]
        chained == sess[t] = "mgr" /\ l = "request"
    IN
    /\ pc[t] = "r_loop"
    /\ ~Full(l)
    /\ recents' = [recents EXCEPT ![l] = DequeAppend(@, None, Limit(l))]
    /\ lock' = [lock EXCEPT ![l] = NoThread]
    /\ lastOp' = [NoOp EXCEPT !.op = "reserve", !.t = t, !.l = l,
                              !.pre = recents[l], !.bar = bar[t]]
    /\ IF chained
       THEN /\ lim' = [lim EXCEPT ![t] = "error"]
            /\ pc' = [pc EXCEPT ![t] = "r_lock"]
            /\ bar' = [bar EXCEPT ![t] = BarOf("error")]
            /\ UNCHANGED resAt
       ELSE /\ pc' = [pc EXCEPT ![t] = "holding"]
            /\ bar' = [bar EXCEPT ![t] = NoTime]
            /\ resAt' = [resAt EXCEPT ![t] = IF sess[t] = "direct" THEN now ELSE NoTime]
            /\ UNCHANGED lim
    /\ UNCHANGED <<now, sess, argTs, argOk, lastRel>>

RAppend(t) == Reserved(t) /\ UNCHANGED rets

\* the same step, with the return written to the history rets
RAppendCounted(t) == Reserved(t) /\ rets' = CountReturn(lim[t])

\* thread t is about to evaluate line 32: it found the queue full at line 30,
\* or it was notified and can take the lock again
AtFront(t) ==
    \/ pc[t] = "r_loop" /\ Full(lim[t])
    \/ pc[t] = "notified" /\ lock[lim[t]] = NoThread

\* a wait that keeps the lock
RWaitKeepsLock(t) ==
    LET l == lim[t] IN
    /\ AtFront(t)
    /\ recents[l] # <<>>
    /\ recents[l][1] = None
    /\ pc' = [pc EXCEPT ![t] = "waiting"]
    /\ lock' = [lock EXCEPT ![l] = t]
    /\ lastOp' = NoOp
    /\ UNCHANGED <<now, recents, sess, lim, argTs, argOk, resAt, bar, rets, lastRel>>

\* lines 32-33: the front slot is pending: wait on the condition (the lock is released)
RWait(t) ==
    LET l == lim[t] IN
    /\ AtFront(t)
    /\ recents[l] # <<>>
    /\ recents[l][1] = None
    /\ pc' = [pc EXCEPT ![t] = "waiting"]
    /\ lock' = [lock EXCEPT ![l] = NoThread]
    /\ lastOp' = NoOp
    /\ UNCHANGED <<now, recents, sess, lim, argTs, argOk, resAt, bar, rets, lastRel>>

\* line 32 on an empty deque: recents[0] raises IndexError, the with block releases the lock
RIndexError(t) ==
    LET l == lim[t] IN
    /\ AtFront(t)
    /\ recents[l] = <<>>
    /\ pc' = [pc EXCEPT ![t] = "IndexError"]
    /\ bar' = [bar EXCEPT ![t] = NoTime]
    /\ lock' = [lock EXCEPT ![l] = NoThread]
    /\ lastOp' = NoOp
    /\ UNCHANGED <<now, recents, sess, lim, argTs, argOk, resAt, rets, lastRel>>

\* lines 37-38: how long to sleep until the front slot leaves the window
SecsToWait(l) == recents[l][1] + Window(l) - now

\* lines 37-39: the front slot is completed: sleep, holding the lock
RSleep(t) ==
    LET l == lim[t] IN
    /\ AtFront(t)
    /\ recents[l] # <<>>
    /\ recents[l][1] # None
    /\ SecsToWait(l) + Eps >= 0
    /\ pc' = [pc EXCEPT ![t] = "sleeping"]
    /\ lock' = [lock EXCEPT ![l] = t]
    /\ lastOp' = NoOp
    /\ UNCHANGED <<now, recents, sess, lim, argTs, argOk, resAt, bar, rets, lastRel>>

\* line 39 with a negative argument: time.sleep raises, the with block releases the lock
RSleepError(t) ==
    LET l == lim[t] IN
    /\ AtFront(t)
    /\ recents[l] # <<>>
    /\ recents[l][1] # None
    /\ SecsToWait(l) + Eps < 0
    /\ pc' = [pc EXCEPT ![t] = "SleepError"]
    /\ bar' = [bar EXCEPT ![t] = NoTime]
    /\ lock' = [lock EXCEPT ![l] = NoThread]
    /\ lastOp' = NoOp
    /\ UNCHANGED <<now, recents, sess, lim, argTs, argOk, resAt, rets, lastRel>>

\* the clock at which the sleep of line 39 ends: the lock is held, so the front
\* slot is the one the sleep was computed from
WakeAt(l) == recents[l][1] + Window(l) + Eps

\* lines 39-40: the sleep is over: forget the old records, back to line 30
RSleepDone(t) ==
    LET l == lim[t] IN
    /\ pc[t] = "sleeping"
    /\ now >= WakeAt(l)
    /\ recents' = [recents EXCEPT ![l] = ForgetOld(@, now, Window(l))]
    /\ pc' = [pc EXCEPT ![t] = "r_loop"]
    /\ lastOp' = NoOp
    /\ UNCHANGED <<now, lock, sess, lim, argTs, argOk, resAt, bar, rets, lastRel>>

\* ---- RateLimit.release (lines 44-59) ----

\* a release that ignores does_not_count
ReleasedAlwaysCounts(q, ts, dnc) == StampLeftmost(q, ts)

\* lines 52-58: the deque after release(ts, does_not_count) found what it needs
Released(q, ts, dnc) ==
    IF dnc THEN RemoveNone(q) ELSE StampLeftmost(q, ts)

\* line 53: deque.remove(None) raises ValueError when no None is in the deque
RemoveRaises(q, dnc) == dnc /\ ~HasNone(q)

\* line 59: self.__cond.notify() wakes one waiting thread, if there is one
Notified(l) ==
    IF Waiters(l) = {} THEN {{}} ELSE {{w} : w \in Waiters(l)}

\* release(ts, dnc) of limiter l called by t, as one step under the lock;
\* t goes on at `next`, or ends in ValueError before line 59
Release(t, l, ts, dnc, kind, next) ==
    LET q == recents[l]
        undo == lastOp.op = "reserve" /\ lastOp.t = t /\ lastOp.l = l
    IN
    /\ lock[l] = NoThread
    /\ lastOp' = [NoOp EXCEPT !.op = kind, !.t = t, !.l = l, !.dnc = dnc, !.ts = ts,
                              !.pre = q, !.undo = undo,
                              !.base = IF undo THEN lastOp.pre ELSE <<>>,
                              !.waiting = Waiters(l)]
    /\ IF RemoveRaises(q, dnc)
       THEN /\ pc' = [pc EXCEPT ![t] = "RemoveError"]
            /\ UNCHANGED recents
       ELSE /\ recents' = [recents EXCEPT ![l] = Released(q, ts, dnc)]
            /\ \E S \in Notified(l) :
                 pc' = [x \in Threads |->
                          IF x = t THEN next
                          ELSE IF x \in S THEN "notified"
                          ELSE pc[x]]
    /\ UNCHANGED <<now, lock, lim, argTs, argOk, bar, rets>>

\* a client that holds a reservation of its limiter releases it, with a timestamp
\* between the clock of the reservation and the clock of the call
ClientRelease(t, ts, dnc) ==
    /\ pc[t] = "holding"
    /\ sess[t] = "direct"
    /\ ts \in resAt[t]..now
    /\ Release(t, lim[t], ts, dnc, "release", "idle")
    /\ sess' = [sess EXCEPT ![t] = "none"]
    /\ resAt' = [resAt EXCEPT ![t] = NoTime]

ReleaseCall(t, ts, dnc) == ClientRelease(t, ts, dnc) /\ UNCHANGED lastRel

\* a client calls release() while the limiter holds no pending slot; it makes no
\* further call
\* ---- one client, reserve/release pairs spaced by more than window/limit ----

Single == "t1"

\* the gap since the last release is greater than window/limit
Spaced(l) ==
    lastRel[l] = NoTime \/ (now - lastRel[l]) * Limit(l) > Window(l)

SpacedReserveCall ==
    /\ Spaced(lim[Single])
    /\ ReserveCall(Single)

\* a counting release stamped with the current clock
StampedRelease ==
    /\ ClientRelease(Single, now, FALSE)
    /\ lastRel' = [lastRel EXCEPT ![lim[Single]] = now]

\* ---- misuse ----

Misuse(t, dnc) ==
    /\ pc[t] = "idle"
    /\ sess[t] = "none"
    /\ ~HasNone(recents[lim[t]])
    /\ Release(t, lim[t], now, dnc, "misuse", "misused")
    /\ UNCHANGED <<sess, resAt, lastRel>>

\* ---- RateLimitManager (lines 79-92) ----

\* an admission that goes to error_limit.reserve() without request_limit.reserve()
AdmitCallErrorFirst(t) ==
    /\ pc[t] = "idle"
    /\ sess[t] = "none"
    /\ sess' = [sess EXCEPT ![t] = "mgr"]
    /\ lim' = [lim EXCEPT ![t] = "error"]
    /\ pc' = [pc EXCEPT ![t] = "r_lock"]
    /\ bar' = [bar EXCEPT ![t] = BarOf("error")]
    /\ lastOp' = NoOp
    /\ UNCHANGED <<now, recents, lock, argTs, argOk, resAt, rets, lastRel>>

\* block_until_can_start_new_request, line 84: request_limit.reserve() is called
\* (the elapsed time of lines 83 and 86 is returned to the caller and kept nowhere)
AdmitCall(t) ==
    /\ pc[t] = "idle"
    /\ sess[t] = "none"
    /\ sess' = [sess EXCEPT ![t] = "mgr"]
    /\ lim' = [lim EXCEPT ![t] = "request"]
    /\ pc' = [pc EXCEPT ![t] = "r_lock"]
    /\ bar' = [bar EXCEPT ![t] = BarOf("request")]
    /\ lastOp' = NoOp
    /\ UNCHANGED <<now, recents, lock, argTs, argOk, resAt, rets, lastRel>>

\* finished(success), line 90: read the clock
FinishedCall(t, success) ==
    /\ pc[t] = "holding"
    /\ sess[t] = "mgr"
    /\ argTs' = [argTs EXCEPT ![t] = now]
    /\ argOk' = [argOk EXCEPT ![t] = success]
    /\ pc' = [pc EXCEPT ![t] = "f_req"]
    /\ lastOp' = NoOp
    /\ UNCHANGED <<now, recents, lock, sess, lim, resAt, bar, rets, lastRel>>

\* line 91: request_limit.release(ts_finished)
FinishReq(t) ==
    /\ pc[t] = "f_req"
    /\ Release(t, "request", argTs[t], FALSE, "release", "f_err")
    /\ UNCHANGED <<sess, resAt, lastRel>>

\* line 92: error_limit.release(ts_finished, does_not_count=success)
FinishErr(t) ==
    /\ pc[t] = "f_err"
    /\ Release(t, "error", argTs[t], argOk[t], "release", "idle")
    /\ sess' = [sess EXCEPT ![t] = "none"]
    /\ UNCHANGED <<resAt, lastRel>>

\* ---- specifications ----

\* clients that call reserve() and release() of their limiter
Next ==
    \/ Tick
    \/ \E t \in Threads : ReserveCall(t)
    \/ \E t \in Threads : RLock(t)
    \/ \E t \in Threads : RAppend(t)
    \/ \E t \in Threads : RWait(t)
    \/ \E t \in Threads : RIndexError(t)
    \/ \E t \in Threads : RSleep(t)
    \/ \E t \in Threads : RSleepError(t)
    \/ \E t \in Threads : RSleepDone(t)
    \/ \E t \in Threads, ts \in Times, dnc \in BOOLEAN : ReleaseCall(t, ts, dnc)
    \/ \E t \in Threads, dnc \in BOOLEAN : Misuse(t, dnc)

Spec == Init /\ [][Next]_vars

\* callers of the RateLimitManager; two callers never reach line 32 on an
\* empty deque, so RIndexError has no step here
NextMgr ==
    \/ Tick
    \/ \E t \in Callers : AdmitCall(t)
    \/ \E t \in Callers : RLock(t)
    \/ \E t \in Callers : RAppend(t)
    \/ \E t \in Callers : RWait(t)
    \/ \E t \in Callers : RSleep(t)
    \/ \E t \in Callers : RSleepError(t)
    \/ \E t \in Callers : RSleepDone(t)
    \/ \E t \in Callers, success \in BOOLEAN : FinishedCall(t, success)
    \/ \E t \in Callers : FinishReq(t)
    \/ \E t \in Callers : FinishErr(t)

SpecMgr == Init /\ [][NextMgr]_vars

\* clients whose releases all count, with the history of returns
NextCounting ==
    \/ Tick
    \/ \E t \in Threads : ReserveCall(t)
    \/ \E t \in Threads : RLock(t)
    \/ \E t \in Threads : RAppendCounted(t)
    \/ \E t \in Threads : RWait(t)
    \/ \E t \in Threads : RSleep(t)
    \/ \E t \in Threads : RSleepError(t)
    \/ \E t \in Threads : RSleepDone(t)
    \/ \E t \in Threads, ts \in Times : ReleaseCall(t, ts, FALSE)

SpecCounting == Init /\ [][NextCounting]_vars

\* one client making well-spaced reserve/release pairs
NextSingle ==
    \/ Tick
    \/ SpacedReserveCall
    \/ RLock(Single)
    \/ RAppend(Single)
    \/ StampedRelease

SpecSingle == Init /\ [][NextSingle]_vars

\* clients that keep running: the clock advances, a thread that can take a
\* step (a free lock, a finished sleep, a release after its reservation)
\* takes it; calling reserve() again is left to the client
Step(t) ==
    \/ RLock(t)
    \/ RAppend(t)
    \/ RWait(t)
    \/ RIndexError(t)
    \/ RSleep(t)
    \/ RSleepError(t)
    \/ RSleepDone(t)
    \/ \E ts \in Times, dnc \in BOOLEAN : ReleaseCall(t, ts, dnc)

NextFair ==
    \/ Tick
    \/ \E t \in Threads : ReserveCall(t)
    \/ \E t \in Threads : Step(t)

FairSpec ==
    /\ Init
    /\ [][NextFair]_vars
    /\ WF_vars(Tick)
    /\ \A t \in Threads : SF_vars(Step(t))

\* the same clients without the scheduling conditions: every release() is
\* called by a thread that holds a reservation
SpecPaired == Init /\ [][NextFair]_vars

\* ---- the claims ----

RECURSIVE SumRange(_, _, _)
SumRange(f, a, b) == IF a > b THEN 0 ELSE f[a] + SumRange(f, a + 1, b)

\* the threads inside reserve() that are held back
Blocked(l) == {t \in Threads : lim[t] = l /\ pc[t] \in {"waiting", "notified", "sleeping"}}

\* C1: with counting releases only, each stamped between the reservation and
\* the release call, at most limit calls of reserve() return within any
\* interval of length window
C1RateBound ==
    \A l \in Limiters : \A a \in Times :
        SumRange(rets[l], a, Min(a + Window(l), MaxTime)) <= Limit(l)

\* limit returns lie in one interval of length window, at more than one
\* instant, and a further caller is held back
C1Witness ==
    \E l \in Limiters : \E a \in Times :
        /\ SumRange(rets[l], a, Min(a + Window(l), MaxTime)) = Limit(l)
        /\ rets[l][a] > 0
        /\ rets[l][a] < Limit(l)
        /\ \E t \in Blocked(l) : pc[t] = "sleeping"

\* C2: recents never holds more than limit records
C2Capacity ==
    \A l \in Limiters : Len(recents[l]) <= Limit(l)

\* the queue is full, with a completed and a pending record, while a caller
\* is held back
C2Witness ==
    \E l \in Limiters :
        /\ Len(recents[l]) = Limit(l)
        /\ Blocked(l) # {}
        /\ HasNone(recents[l])
        /\ recents[l][1] # None

\* C5: a reserve() called on a queue full of completed records that are all
\* inside the window returns only after the clock has passed the front
\* timestamp plus the window
C5AdmissionTiming ==
    (lastOp.op = "reserve" /\ lastOp.bar # NoTime) => now > lastOp.bar

\* limit records were completed at time 0 and the next reserve() has returned
C5Witness ==
    /\ lastOp.op = "reserve"
    /\ lastOp.bar = Window(lastOp.l)
    /\ now = Window(lastOp.l) + Eps

\* C6: reserve() followed at once by release(ts, does_not_count=True) leaves
\* recents equal to the queue reserve() appended to
C6NonCountingUndo ==
    (lastOp.op = "release" /\ lastOp.dnc /\ lastOp.undo) =>
        /\ pc[lastOp.t] = "idle"
        /\ recents[lastOp.l] = lastOp.base

\* the pair was run on a queue that held a completed record
C6Witness ==
    /\ lastOp.op = "release"
    /\ lastOp.dnc
    /\ lastOp.undo
    /\ lastOp.base # <<>>
    /\ lastOp.base[1] # None

\* no release() was called without a pending slot
NoMisuse == \A t \in Threads : pc[t] \notin {"misused", "RemoveError"}

\* C3: when every release() matches an outstanding reservation, no reserve()
\* call ends in an exception
C3ReserveNeverFails ==
    NoMisuse => \A t \in Threads : pc[t] \notin {"IndexError", "SleepError"}

InReserve == {"r_lock", "r_loop", "waiting", "notified", "sleeping"}

\* C4: when every reservation is released once and the clock advances, every
\* call of reserve() returns (or is still held back when the clock of the
\* model reaches MaxTime)
C4ReserveReturns ==
    \A t \in Threads :
        (pc[t] \in InReserve) ~>
            (pc[t] = "holding" \/ (now = MaxTime /\ pc[t] \in InReserve))

Completed(q) == SelectSeq(q, LAMBDA x : x # None)

CountOf(q, v) == Cardinality({i \in 1..Len(q) : q[i] = v})

C7Step ==
    LET q == recents["error"]
        q2 == recents'["error"]
        done == lastOp'.op = "release" /\ lastOp'.l = "error"
    IN
    /\ (done /\ lastOp'.dnc) =>
          /\ pc'[lastOp'.t] = "idle"
          /\ Len(q2) = Len(q) - 1
          /\ CountOf(q2, None) = CountOf(q, None) - 1
          /\ Completed(q2) = Completed(q)
    /\ (done /\ ~lastOp'.dnc) =>
          /\ pc'[lastOp'.t] = "idle"
          /\ Len(q2) = Len(q)
          /\ CountOf(q2, None) = CountOf(q, None) - 1
          /\ CountOf(q2, lastOp'.ts) = CountOf(q, lastOp'.ts) + 1
    /\ \A v \in Times :
          now' <= v + ErrWindow => CountOf(q2, v) >= CountOf(q, v)

\* C7: finished(success=True) removes one pending record of error_limit and
\* adds no completed one; finished(success=False) turns one pending record
\* into a completed one, and no completed record leaves error_limit.recents
\* before the clock exceeds its timestamp plus the window of error_limit
C7ErrorAccounting == [][C7Step]_vars

\* a successful call has just freed its slot while the record of a failed
\* call is still in error_limit at its timestamp plus the window
C7Witness ==
    /\ lastOp.op = "release"
    /\ lastOp.l = "error"
    /\ lastOp.dnc
    /\ pc[lastOp.t] = "idle"
    /\ \E i \in 1..Len(recents["error"]) :
          /\ recents["error"][i] # None
          /\ now = recents["error"][i] + ErrWindow

\* C8: a release() that completes leaves no thread waiting on the condition
\* that was waiting before it
C8NotifiesAll ==
    (lastOp.op = "release" /\ pc[lastOp.t] # "RemoveError") =>
        \A w \in lastOp.waiting : pc[w] # "waiting"

\* C9: a release() called while recents holds no pending record ends in an
\* error and leaves recents unchanged
C9MisuseIsLoud ==
    lastOp.op = "misuse" =>
        /\ pc[lastOp.t] = "RemoveError"
        /\ recents[lastOp.l] = lastOp.pre

\* C10: in a run of one client whose reserve/release pairs are spaced by more
\* than window/limit, reserve() finds the queue not full at line 30: it
\* neither waits nor sleeps
C10NeverBlocks ==
    /\ pc[Single] \notin {"waiting", "notified", "sleeping", "IndexError", "SleepError"}
    /\ pc[Single] = "r_loop" => ~Full(lim[Single])

\* reserve() was called on a queue that still held limit records, with a
\* limit above one, and line 29 made room
C10Witness ==
    /\ pc[Single] = "r_loop"
    /\ lastOp.op = "lock"
    /\ Limit(lastOp.l) > 1
    /\ Len(lastOp.pre) = Limit(lastOp.l)
    /\ ~Full(lastOp.l)

\* the callers of the manager whose request_limit.reserve() has returned and
\* whose request slot is still pending
PastRequest ==
    {t \in Callers : sess[t] = "mgr" /\ lim[t] = "error" /\ pc[t] \notin {"f_err", "idle"}}

\* the callers whose error_limit.reserve() has returned and whose error slot
\* is still pending
PastError ==
    {t \in Callers : sess[t] = "mgr" /\ pc[t] \in {"holding", "f_req", "f_err"}}

\* C11: in the manager a caller has a pending record in error_limit only
\* after its request_limit.reserve() returned: the pending records of each
\* limiter are those of the callers past that reserve(), a caller inside
\* request_limit.reserve() has none in error_limit, and a call that found
\* request_limit full of unexpired records gets its request slot only after
\* the front record left the window
C11AdmissionOrder ==
    /\ CountOf(recents["request"], None) = Cardinality(PastRequest)
    /\ CountOf(recents["error"], None) = Cardinality(PastError)
    /\ \A t \in PastError : lim[t] = "error"
    /\ (lastOp.op = "reserve" /\ lastOp.l = "request" /\ lastOp.bar # NoTime) =>
          now > lastOp.bar

\* a caller sleeps in request_limit.reserve(), which it found full of
\* unexpired records, while error_limit has room and holds no pending record
C11Witness ==
    \E t \in Callers :
        /\ sess[t] = "mgr"
        /\ lim[t] = "request"
        /\ pc[t] = "sleeping"
        /\ bar[t] # NoTime
        /\ now <= bar[t]
        /\ Len(recents["error"]) < ErrLimit
        /\ recents["error"] # <<>>
        /\ ~HasNone(recents["error"])

\* the holder of each lock is inside the with block of reserve() on that
\* limiter; a thread in wait(), or notified and not yet running, holds none
LockHolders ==
    /\ \A l \in Limiters : lock[l] # NoThread =>
          /\ lock[l] \in Threads
          /\ lim[lock[l]] = l
          /\ pc[lock[l]] \in {"r_loop", "sleeping"}
    /\ \A t \in Threads : pc[t] \in {"r_loop", "sleeping"} => lock[lim[t]] = t
    /\ \A t \in Threads : pc[t] \in {"waiting", "notified"} => lock[lim[t]] # t

\* a step that changes recents[l] is taken by the holder of l's lock, or, when
\* the lock is free, by the thread that takes it in that step (line 28 with
\* line 29, or the whole with block of release()); that thread is not waiting
C12Step ==
    \A l \in Limiters :
        recents'[l] # recents[l] =>
            IF lock[l] # NoThread
            THEN /\ pc[lock[l]] \in {"r_loop", "sleeping"}
                 /\ pc'[lock[l]] # pc[lock[l]]
                 /\ lock'[l] \in {lock[l], NoThread}
            ELSE /\ lastOp'.op \in {"lock", "release", "misuse"}
                 /\ lastOp'.l = l
                 /\ pc[lastOp'.t] \notin {"waiting", "notified"}
                 /\ lock'[l] = IF lastOp'.op = "lock" THEN lastOp'.t ELSE NoThread

\* C12: every change of recents is made under the lock of its limiter, one
\* thread at most holds a lock, and a thread waiting on the condition holds
\* no lock and changes nothing
C12MutualExclusion == [][C12Step /\ LockHolders']_vars

\* a release() has changed recents while two threads waited on the
\* condition; one of them is notified and the lock is free for it
C12Witness ==
    /\ lastOp.op = "release"
    /\ recents[lastOp.l] # lastOp.pre
    /\ lock[lastOp.l] = NoThread
    /\ \E w \in lastOp.waiting : pc[w] = "waiting"
    /\ \E w \in lastOp.waiting : pc[w] = "notified"

\* C13: a thread in the timed sleep of reserve() does not hold the lock of
\* its limiter, so that a release() of a thread holding a reservation of that
\* limiter can run during the sleep
C13SleepsUnlocked ==
    \A t \in Threads :
        pc[t] = "sleeping" =>
            \A h \in Threads :
                (pc[h] = "holding" /\ lim[h] = lim[t]) =>
                    lock[lim[t]] # t

C14Step ==
    \A t \in Threads :
        (pc'[t] \in {"waiting", "sleeping"} /\ pc'[t] # pc[t]) => Full(lim[t])

\* C14: a thread inside reserve() starts to wait on the condition, or starts
\* a timed sleep, only when recents holds limit records; a woken waiter that
\* finds fewer goes on to append
C14SuspendsOnlyWhenFull == [][C14Step]_vars

\* C15: the completed records of recents carry non-decreasing timestamps in
\* queue order, when each caller reads the clock and then calls release()
\* with that reading, as finished() does (lines 90-92)
C15TimestampOrder ==
    \A l \in Limiters :
        \A i \in 1..Len(recents[l]) : \A j \in 1..Len(recents[l]) :
            (i < j /\ recents[l][i] # None /\ recents[l][j] # None) =>
                recents[l][i] <= recents[l][j]

\* q2 is q without its first k records, all of them completed and older than
\* the window at clock t, and what is left starts with a record that stays
Evicted(q, q2, k, t, w) ==
    /\ q2 = SubSeq(q, k + 1, Len(q))
    /\ \A i \in 1..k : q[i] # None /\ q[i] < t - w
    /\ q2 # <<>> => (q2[1] = None \/ q2[1] >= t - w)

C16Step ==
    \A l \in Limiters :
        LET q == recents[l]
            q2 == recents'[l]
        IN
        IF \/ lastOp'.op = "lock" /\ lastOp'.l = l
           \/ \E t \in Threads : lim[t] = l /\ pc[t] = "sleeping" /\ pc'[t] = "r_loop"
        THEN /\ now' = now
             /\ \E k \in 0..Len(q) : Evicted(q, q2, k, now, Window(l))
        ELSE \A v \in Times : CountOf(q2, v) >= CountOf(q, v)

\* C16: a completed record leaves recents only in __forget_old, from the
\* front, when its timestamp is less than now - window; __forget_old stops at
\* the first pending record, the first unexpired record or the empty queue,
\* and removes no pending record
C16EvictionRule == [][C16Step]_vars

\* __forget_old has just removed an expired record and stopped at a pending
\* one, on a queue that held both
C16Witness ==
    /\ lastOp.op = "lock"
    /\ Len(lastOp.pre) > Len(recents[lastOp.l])
    /\ recents[lastOp.l] # <<>>
    /\ recents[lastOp.l][1] = None

\* C17: a counting release(ts) on a queue with a pending record writes ts
\* into the leftmost pending record; the length, the order, the other
\* pending records and the completed timestamps stay as they were
C17CountingReleaseFrame ==
    (lastOp.op = "release" /\ ~lastOp.dnc /\ HasNone(lastOp.pre)) =>
        LET q == lastOp.pre
            q2 == recents[lastOp.l]
        IN
        /\ Len(q2) = Len(q)
        /\ \E i \in 1..Len(q) :
              /\ q[i] = None
              /\ \A j \in 1..(i - 1) : q[j] # None
              /\ q2[i] = lastOp.ts
              /\ \A j \in 1..Len(q) : j # i => q2[j] = q[j]

\* the release found two pending records
C17Witness ==
    /\ lastOp.op = "release"
    /\ ~lastOp.dnc
    /\ CountOf(lastOp.pre, None) >= 2

\* C18: recents is a run of completed records followed by a run of pending
\* records: no pending record precedes a completed one
C18QueueShape ==
    \A l \in Limiters :
        \A i \in 1..Len(recents[l]) : \A j \in 1..Len(recents[l]) :
            (i < j /\ recents[l][i] = None) => recents[l][j] = None

\* a release() has completed one of two pending records, or a reserve() has
\* appended a pending record behind a completed one
C18Witness ==
    /\ lastOp.op \in {"release", "reserve"}
    /\ Len(recents[lastOp.l]) >= 2
    /\ recents[lastOp.l][1] # None
    /\ recents[lastOp.l][Len(recents[lastOp.l])] = None

\* C19: reserve() appends its pending record to a queue of fewer than limit
\* records: the deque drops nothing on append, every record of the queue
\* before the append is still there, in place
C19NoSilentDrop ==
    lastOp.op = "reserve" =>
        /\ Len(lastOp.pre) < Limit(lastOp.l)
        /\ recents[lastOp.l] = Append(lastOp.pre, None)

\* the append has filled a queue whose front is a completed record
C19Witness ==
    /\ lastOp.op = "reserve"
    /\ lastOp.pre # <<>>
    /\ lastOp.pre[1] # None
    /\ Len(recents[lastOp.l]) = Limit(lastOp.l)

\* the threads that returned from reserve() of l and have not released
Holders(l) == {t \in Threads : lim[t] = l /\ pc[t] = "holding"}

\* C20: when every release() is called by a thread that returned from
\* reserve() and has not released, the pending records of recents are as many
\* as those threads, and every release() finds a pending record: it stamps
\* one, or removes one without raising
C20SlotConservation ==
    /\ \A l \in Limiters : CountOf(recents[l], None) = Cardinality(Holders(l))
    /\ \A t \in Threads : pc[t] # "RemoveError"
    /\ lastOp.op = "release" =>
          /\ HasNone(lastOp.pre)
          /\ CountOf(recents[lastOp.l], None) = CountOf(lastOp.pre, None) - 1

\* a does_not_count release has run while two threads held a reservation
\* and the third was inside reserve()
C20Witness ==
    /\ lastOp.op = "release"
    /\ lastOp.dnc
    /\ CountOf(lastOp.pre, None) = 2
    /\ Cardinality(Holders(lastOp.l)) = 1
    /\ \E t \in Threads : pc[t] \in InReserve

====
